---- MODULE Spec2Model ----
(***************************************************************************)
(* Citation verification and span alignment of rag_dataset_generator.      *)
(*                                                                         *)
(* Text is a sequence of characters; a character is a one-element string   *)
(* (the Unicode ellipsis glyph U+2026 is written ELLIPSIS).  Positions are *)
(* the 0-based positions of the Python source.                             *)
(***************************************************************************)
EXTENDS Integers, Sequences, FiniteSets, TLC

VARIABLES
    citation,          \* validate_citation: the citation argument
    document_content,  \* the document text (both entry points)
    vpc,               \* validate_citation: "call" before, "return" after
    is_valid,          \* validate_citation: the value returned
    triples,           \* the triples generate_triples returned
    hide_invalid,      \* create_highlighted_html: its hide_invalid argument
    hpc,               \* position in generate_triples / create_highlighted_html
    valid_triples,     \* create_highlighted_html: the triples kept by the filter
    highlights,        \* create_highlighted_html: the located highlights
    legend,            \* create_highlighted_html: the legend items emitted
    result,            \* create_highlighted_html: the slices appended so far
    last_pos,          \* create_highlighted_html: the cursor of the assembly loop
    html,              \* create_highlighted_html: which page is returned
    parsed,            \* generate_triples: what parse_llm_response returned
    raised,            \* generate_triples: the call or the parsing raised
    chunks,            \* truncate_to_token_limit: the chunks argument
    max_tokens,        \* DocumentParser: self.max_tokens
    chunk_index,       \* truncate_to_token_limit: the chunks taken from the list
    total_tokens,      \* truncate_to_token_limit: the running total
    chunk_metadata,    \* truncate_to_token_limit: the chunks recorded
    combined_text,     \* truncate_to_token_limit: the pieces of text appended
    ppc,               \* position in truncate_to_token_limit
    output_format,     \* DatasetWriter.write: its format argument
    source_file,       \* DatasetWriter.write: its source_file argument
    written,           \* DatasetWriter.write: its triples argument
    dataset_file,      \* the content of the file written
    loaded,            \* load_dataset: the triples returned
    source_doc,        \* load_dataset: the source document name returned
    wpc,               \* position in the write and the load
    search_parts,      \* validate_citation: the non-empty parts of one split
    search_doc,        \* validate_citation: the normalized document
    found,             \* validate_citation: all_found after the loop over parts
    spc                \* position in the loop over parts

vvars == <<citation, vpc, is_valid>>

hvars == <<triples, hide_invalid, hpc, valid_triples, highlights, legend,
           result, last_pos, html>>

gvars == <<parsed, raised>>

pvars == <<chunks, max_tokens, chunk_index, total_tokens, chunk_metadata,
           combined_text, ppc>>

\* the variables of the functions around the citation core
wvars == <<output_format, source_file, written, dataset_file, loaded, source_doc, wpc>>

svars == <<search_parts, search_doc, found, spc>>

xvars == <<pvars, wvars, svars>>

vars == <<document_content, vvars, hvars, gvars, xvars>>

----------------------------------------------------------------------------
(* Characters *)

ELLIPSIS == "U+2026"

\* LATIN SMALL LETTER SHARP S: no single upper-case character
SHARP_S == "U+00DF"

\* GREEK CAPITAL LETTER SIGMA and its two lower-case forms
SIGMA == "U+03A3"

SMALL_SIGMA == "U+03C3"

FINAL_SIGMA == "U+03C2"

IsSpace(c) == c \in {" ", "\n"}

\* the ASCII letters, upper case and lower case in the same order
UpperLetters == <<"A", "B", "C", "D", "E", "F", "G", "H", "I", "J", "K", "L", "M", "N", "O", "P", "Q", "R", "S", "T", "U", "V", "W", "X", "Y", "Z">>

LowerLetters == <<"a", "b", "c", "d", "e", "f", "g", "h", "i", "j", "k", "l", "m", "n", "o", "p", "q", "r", "s", "t", "u", "v", "w", "x", "y", "z">>

IsUpperLetter(c) == \E i \in 1..Len(UpperLetters) : UpperLetters[i] = c

IsLowerLetter(c) == \E i \in 1..Len(LowerLetters) : LowerLetters[i] = c

IsCased(c) ==
    \/ IsUpperLetter(c)
    \/ IsLowerLetter(c)
    \/ c \in {SHARP_S, SIGMA, SMALL_SIGMA, FINAL_SIGMA}

\* of the characters used here only the full stop is case-ignorable
IsCaseIgnorable(c) == c = "."

\* the lower-case form of a character whose form does not depend on its place
LowerChar(c) ==
    IF IsUpperLetter(c)
    THEN LowerLetters[CHOOSE i \in 1..Len(UpperLetters) : UpperLetters[i] = c]
    ELSE c

\* the upper-case form of a character: one character, or two for the sharp s
UpperChar(c) ==
    IF IsLowerLetter(c)
    THEN <<UpperLetters[CHOOSE i \in 1..Len(LowerLetters) : LowerLetters[i] = c]>>
    ELSE IF c = SHARP_S THEN <<"S", "S">>
    ELSE IF c \in {SMALL_SIGMA, FINAL_SIGMA} THEN <<SIGMA>>
    ELSE <<c>>

----------------------------------------------------------------------------
(* Python string primitives *)

MinOf(S) == CHOOSE x \in S : \A y \in S : x <= y

MaxOf(S) == CHOOSE x \in S : \A y \in S : x >= y

\* s[i:j] for 0 <= i
Slice(s, i, j) == SubSeq(s, i + 1, IF j < Len(s) THEN j ELSE Len(s))

\* s[i:i+len(sub)] == sub
OccursAt(s, sub, i) ==
    /\ i >= 0
    /\ i + Len(sub) <= Len(s)
    /\ Slice(s, i, i + Len(sub)) = sub

\* s.find(sub, start) for start >= 0
Find(s, sub, start) ==
    LET cands == {i \in start..(Len(s) - Len(sub)) : OccursAt(s, sub, i)}
    IN  IF cands = {} THEN -1 ELSE MinOf(cands)

\* sub in s
Contains(sub, s) == Find(s, sub, 0) # -1

\* the capital sigma at place i of s ends a word: a cased character comes
\* before it and none after it, case-ignorable characters being skipped
FinalSigma(s, i) ==
    /\ \E j \in 1..(i - 1) :
          IsCased(s[j]) /\ \A k \in (j + 1)..(i - 1) : IsCaseIgnorable(s[k])
    /\ ~\E j \in (i + 1)..Len(s) :
          IsCased(s[j]) /\ \A k \in (i + 1)..(j - 1) : IsCaseIgnorable(s[k])

\* s.lower()
Lower(s) ==
    [i \in 1..Len(s) |->
        IF s[i] = SIGMA
        THEN IF FinalSigma(s, i) THEN FINAL_SIGMA ELSE SMALL_SIGMA
        ELSE LowerChar(s[i])]

RECURSIVE Upper(_)
\* s.upper()
Upper(s) == IF s = <<>> THEN <<>> ELSE UpperChar(Head(s)) \o Upper(Tail(s))

\* s.strip()
Strip(s) ==
    LET nonws == {i \in 1..Len(s) : ~IsSpace(s[i])}
    IN  IF nonws = {} THEN <<>> ELSE SubSeq(s, MinOf(nonws), MaxOf(nonws))

RECURSIVE SplitFrom(_, _, _, _)
SplitFrom(s, i, cur, acc) ==
    IF i > Len(s)
    THEN IF cur = <<>> THEN acc ELSE Append(acc, cur)
    ELSE IF IsSpace(s[i])
         THEN SplitFrom(s, i + 1, <<>>, IF cur = <<>> THEN acc ELSE Append(acc, cur))
         ELSE SplitFrom(s, i + 1, Append(cur, s[i]), acc)

\* s.split(): the maximal runs of non-whitespace characters
Split(s) == SplitFrom(s, 1, <<>>, <<>>)

RECURSIVE Join(_, _)
\* sep.join(toks)
Join(sep, toks) ==
    IF toks = <<>> THEN <<>>
    ELSE IF Len(toks) = 1 THEN toks[1]
    ELSE toks[1] \o sep \o Join(sep, Tail(toks))

----------------------------------------------------------------------------
(* re.split(r'\s*M\s*', s) for a literal marker M that starts and ends     *)
(* with a non-whitespace character                                         *)

RECURSIVE SkipWs(_, _)
\* the position reached from i after a greedy \s*
SkipWs(s, i) ==
    IF i < Len(s) /\ IsSpace(s[i + 1]) THEN SkipWs(s, i + 1) ELSE i

\* end of the match of \s*M\s* that starts at i, or -1
MatchEnd(s, M, i) ==
    LET j == SkipWs(s, i)
    IN  IF OccursAt(s, M, j) THEN SkipWs(s, j + Len(M)) ELSE -1

RECURSIVE re_split_from(_, _, _, _)
re_split_from(s, M, k, p) ==
    IF k >= Len(s)
    THEN <<Slice(s, p, Len(s))>>
    ELSE LET e == MatchEnd(s, M, k)
         IN  IF e # -1
             THEN <<Slice(s, p, k)>> \o re_split_from(s, M, e, e)
             ELSE re_split_from(s, M, k + 1, p)

re_split(M, s) == re_split_from(s, M, 0, 0)

----------------------------------------------------------------------------
(* generator.py: QACitationGenerator.validate_citation *)

\* ' '.join(text.split()).lower()
normalized(text) == Lower(Join(<<" ">>, Split(text)))

\* ellipsis_patterns whose first pattern matches a single dot
ellipsis_patterns_single_dot ==
    << <<".">>,
       <<ELLIPSIS>>,
       <<"[", ".", ".", ".", "]">>,
       <<"[", ELLIPSIS, "]">> >>

\* ellipsis_patterns without the two bracketed patterns
ellipsis_patterns_unbracketed ==
    << <<".", ".", ".">>,
       <<ELLIPSIS>> >>

\* the marker of each pattern \s*<marker>\s*, in the order of the list
ellipsis_patterns ==
    << <<".", ".", ".">>,
       <<ELLIPSIS>>,
       <<"[", ".", ".", ".", "]">>,
       <<"[", ELLIPSIS, "]">> >>

\* [p.strip() for p in parts if p.strip()]
nonempty_parts(parts) ==
    LET kept == SelectSeq(parts, LAMBDA p : Strip(p) # <<>>)
    IN  [i \in 1..Len(kept) |-> Strip(kept[i])]

\* all_found with every part searched from the start of the document
all_found_unordered(parts, normalized_doc, prev_pos) ==
    \A i \in 1..Len(parts) : Find(normalized_doc, parts[i], 0) # -1

RECURSIVE all_found_after_match_end(_, _, _)
\* all_found with each part searched from the end of the match before it
\* (prev_pos is then one less than that end)
all_found_after_match_end(ps, nd, prev_pos) ==
    IF ps = <<>> THEN TRUE
    ELSE LET pos == Find(nd, Head(ps), prev_pos + 1)
         IN  IF pos = -1 THEN FALSE
             ELSE all_found_after_match_end(Tail(ps), nd, pos + Len(Head(ps)) - 1)

RECURSIVE all_found(_, _, _)
\* the loop over parts: each part is searched from last_pos + 1, last_pos
\* (here prev_pos) being where the part before it was found
all_found(parts, normalized_doc, prev_pos) ==
    IF parts = <<>> THEN TRUE
    ELSE LET pos == Find(normalized_doc, Head(parts), prev_pos + 1)
         IN  IF pos = -1 THEN FALSE
             ELSE all_found(Tail(parts), normalized_doc, pos)

RECURSIVE try_patterns_first_decides(_, _, _)
\* try_patterns returning the verdict of the first pattern that splits
try_patterns_first_decides(normalized_citation, normalized_doc, k) ==
    IF k > Len(ellipsis_patterns) THEN FALSE
    ELSE LET parts == re_split(ellipsis_patterns[k], normalized_citation)
         IN  IF Len(parts) > 1
             THEN IF nonempty_parts(parts) = <<>> THEN FALSE
                  ELSE all_found(nonempty_parts(parts), normalized_doc, -1)
             ELSE try_patterns_first_decides(normalized_citation, normalized_doc, k + 1)

RECURSIVE concat_all(_)
concat_all(lists) ==
    IF lists = <<>> THEN <<>> ELSE Head(lists) \o concat_all(Tail(lists))

RECURSIVE split_by_all(_, _)
\* the parts split again by the k-th pattern and every pattern before it
split_by_all(parts, k) ==
    IF k = 0 THEN parts
    ELSE split_by_all(
            concat_all([i \in 1..Len(parts) |-> re_split(ellipsis_patterns[k], parts[i])]),
            k - 1)

\* try_patterns with all the forms combined into one pass
try_patterns_combining_forms(normalized_citation, normalized_doc, k) ==
    LET parts == split_by_all(<<normalized_citation>>, Len(ellipsis_patterns))
    IN  /\ Len(parts) > 1
        /\ nonempty_parts(parts) # <<>>
        /\ all_found(nonempty_parts(parts), normalized_doc, -1)

RECURSIVE try_patterns(_, _, _)
\* the loop over ellipsis_patterns, from the k-th pattern on
try_patterns(normalized_citation, normalized_doc, k) ==
    IF k > Len(ellipsis_patterns) THEN FALSE
    ELSE LET parts == re_split(ellipsis_patterns[k], normalized_citation)
         IN  IF Len(parts) > 1
             THEN IF nonempty_parts(parts) = <<>> THEN FALSE
                  ELSE IF all_found(nonempty_parts(parts), normalized_doc, -1)
                       THEN TRUE
                       ELSE try_patterns(normalized_citation, normalized_doc, k + 1)
             ELSE try_patterns(normalized_citation, normalized_doc, k + 1)

\* validate_citation without the elided path
validate_citation_exact_only(cit, doc) ==
    Contains(normalized(cit), normalized(doc))

\* validate_citation without the exact match tried first
validate_citation_elided_only(cit, doc) ==
    try_patterns(normalized(cit), normalized(doc), 1)

validate_citation(cit, doc) ==
    LET normalized_doc == normalized(doc)
        normalized_citation == normalized(cit)
    IN  IF Contains(normalized_citation, normalized_doc) THEN TRUE
        ELSE try_patterns(normalized_citation, normalized_doc, 1)

----------------------------------------------------------------------------
(* Inputs of validate_citation *)

MaxSegLen == 2
MaxDocLen == 2

StringsUpTo(chars, n) == UNION {[1..k -> chars] : k \in 0..n}

SegChars == {"a", SHARP_S}
DocChars == {"A", SHARP_S, " "}

SegInputs == StringsUpTo(SegChars, MaxSegLen)

GapInputs ==
    { <<>>, <<" ">>, <<" ", "\n">>, <<".">>,
      <<".", ".", ".">>,
      <<" ", ".", ".", ".", " ">>, <<" ", ELLIPSIS, " ">>,
      <<" ", "[", ".", ".", ".", "]", " ">>, <<" ", "[", ELLIPSIS, "]", " ">> }

CitationInputs == {s1 \o g \o s2 : s1 \in SegInputs, g \in GapInputs, s2 \in SegInputs}

DocumentInputs == StringsUpTo(DocChars, MaxDocLen)

----------------------------------------------------------------------------
(* One call of validate_citation *)

GIdle ==
    /\ parsed = <<>>
    /\ raised = FALSE

PIdle ==
    /\ chunks = <<>>
    /\ max_tokens = 0
    /\ chunk_index = 0
    /\ total_tokens = 0
    /\ chunk_metadata = <<>>
    /\ combined_text = <<>>
    /\ ppc = "idle"

WIdle ==
    /\ output_format = "csv"
    /\ source_file = <<>>
    /\ written = <<>>
    /\ dataset_file = <<>>
    /\ loaded = <<>>
    /\ source_doc = <<>>
    /\ wpc = "idle"

SIdle ==
    /\ search_parts = <<>>
    /\ search_doc = <<>>
    /\ found = FALSE
    /\ spc = "idle"

XIdle == PIdle /\ WIdle /\ SIdle

HIdle ==
    /\ triples = <<>>
    /\ hide_invalid = TRUE
    /\ hpc = "idle"
    /\ valid_triples = <<>>
    /\ highlights = <<>>
    /\ legend = <<>>
    /\ result = <<>>
    /\ last_pos = 0
    /\ html = "none"

InitV ==
    /\ GIdle
    /\ XIdle
    /\ citation \in CitationInputs
    /\ document_content \in DocumentInputs
    /\ vpc = "call"
    /\ is_valid = FALSE
    /\ HIdle

ValidateCitation ==
    /\ vpc = "call"
    /\ is_valid' = validate_citation(citation, document_content)
    /\ vpc' = "return"
    /\ UNCHANGED <<citation, document_content, hvars, gvars, xvars>>

NextV == ValidateCitation

SpecV == InitV /\ [][NextV]_vars

----------------------------------------------------------------------------
(* gui_backend.py: the span locator of create_highlighted_html *)

\* ' '.join(text.split())
normalize(text) == Join(<<" ">>, Split(text))

NotFound == [found |-> FALSE, start |-> 0, end |-> 0]

Span(s, e) == [found |-> TRUE, start |-> s, end |-> e]

\* Tier 1: document_content.find(citation)
tier1(cit, doc) ==
    LET pos == Find(doc, cit, 0)
    IN  IF pos # -1 THEN Span(pos, pos + Len(cit)) ELSE NotFound

RECURSIVE WsRun(_, _)
\* the number of whitespace characters of s from position i on
WsRun(s, i) ==
    IF i < Len(s) /\ IsSpace(s[i + 1]) THEN 1 + WsRun(s, i + 1) ELSE 0

RECURSIVE pattern_match(_, _, _, _)
\* The end of the match of citation_pattern from position di of the document,
\* or -1.  re.escape puts a backslash before every whitespace character and
\* re.sub(r'\\\s+', r'\\s+', ...) turns each such pair into one \s+, so a run
\* of k whitespace characters of the citation asks for k or more whitespace
\* characters, and being greedy takes the whole run of the document.
pattern_match(cit, ci, doc, di) ==
    IF ci >= Len(cit) THEN di
    ELSE IF IsSpace(cit[ci + 1])
         THEN LET k == WsRun(cit, ci)
                  run == WsRun(doc, di)
              IN  IF run >= k THEN pattern_match(cit, ci + k, doc, di + run) ELSE -1
         ELSE IF di < Len(doc) /\ doc[di + 1] = cit[ci + 1]
              THEN pattern_match(cit, ci + 1, doc, di + 1)
              ELSE -1

\* Tier 2: re.search(citation_pattern, document_content)
tier2(cit, doc) ==
    LET starts == {s \in 0..Len(doc) : pattern_match(cit, 0, doc, s) # -1}
    IN  IF starts = {} THEN NotFound
        ELSE Span(MinOf(starts), pattern_match(cit, 0, doc, MinOf(starts)))

\* a whitespace character that follows a non-whitespace character
IsBoundary(doc, i) == i > 0 /\ i < Len(doc) /\ IsSpace(doc[i + 1]) /\ ~IsSpace(doc[i])

RECURSIVE start_scan(_, _, _, _)
\* the first loop over the document: char_pos
start_scan(doc, i, word_count, target_word_count) ==
    IF i >= Len(doc) THEN 0
    ELSE IF IsBoundary(doc, i)
         THEN IF word_count + 1 >= target_word_count THEN i
              ELSE start_scan(doc, i + 1, word_count + 1, target_word_count)
         ELSE start_scan(doc, i + 1, word_count, target_word_count)

RECURSIVE end_scan(_, _, _, _, _)
\* the second loop over the document: end_pos
end_scan(doc, i, char_pos, end_word_count, citation_word_count) ==
    IF i >= Len(doc) THEN char_pos
    ELSE IF IsBoundary(doc, i) /\ i > char_pos
         THEN IF end_word_count + 1 >= citation_word_count THEN i
              ELSE end_scan(doc, i + 1, char_pos, end_word_count + 1, citation_word_count)
         ELSE end_scan(doc, i + 1, char_pos, end_word_count, citation_word_count)

\* tier3 whose end fallback is not cut at the end of the document
tier3_unclamped(cit, doc) ==
    LET normalized_doc == normalize(doc)
        normalized_citation == normalize(cit)
        norm_pos == Find(normalized_doc, normalized_citation, 0)
        target_word_count == Len(Split(Slice(normalized_doc, 0, norm_pos)))
        char_pos == start_scan(doc, 0, 0, target_word_count)
        citation_word_count == Len(Split(normalized_citation))
        end_pos == end_scan(doc, char_pos, char_pos, 0, citation_word_count)
    IN  IF normalized_citation = <<>> THEN NotFound
        ELSE IF norm_pos = -1 THEN NotFound
        ELSE IF end_pos = char_pos
             THEN Span(char_pos, char_pos + Len(cit))
             ELSE Span(char_pos, end_pos)

\* Tier 3: the word-count alignment
tier3(cit, doc) ==
    LET normalized_doc == normalize(doc)
        normalized_citation == normalize(cit)
        norm_pos == Find(normalized_doc, normalized_citation, 0)
        target_word_count == Len(Split(Slice(normalized_doc, 0, norm_pos)))
        char_pos == start_scan(doc, 0, 0, target_word_count)
        citation_word_count == Len(Split(normalized_citation))
        end_pos == end_scan(doc, char_pos, char_pos, 0, citation_word_count)
    IN  IF normalized_citation = <<>> THEN NotFound
        ELSE IF norm_pos = -1 THEN NotFound
        ELSE IF end_pos = char_pos
             THEN Span(char_pos, IF char_pos + Len(cit) < Len(doc)
                                 THEN char_pos + Len(cit) ELSE Len(doc))
             ELSE Span(char_pos, end_pos)

\* one iteration of the loop over valid_triples
locate(cit, doc) ==
    IF tier1(cit, doc).found THEN tier1(cit, doc)
    ELSE IF tier2(cit, doc).found THEN tier2(cit, doc)
    ELSE tier3(cit, doc)

----------------------------------------------------------------------------
(* gui_backend.py: create_highlighted_html and its callers' data *)

\* len(base_colors)
NumBaseColors == 12

\* get_citation_colors(n)[idx], a colour being named by its place in base_colors
get_citation_colors(idx) == idx % NumBaseColors

\* t.get('citation_valid', True)
get_citation_valid(t) ==
    IF "citation_valid" \in DOMAIN t THEN t.citation_valid ELSE TRUE

\* the filter keeping only the triples that carry a true citation_valid
filter_triples_requiring_flag(ts, hide) ==
    IF hide
    THEN SelectSeq(ts, LAMBDA t : "citation_valid" \in DOMAIN t /\ t.citation_valid)
    ELSE ts

\* [t for t in triples if t.get('citation_valid', True)] or triples
filter_triples(ts, hide) ==
    IF hide THEN SelectSeq(ts, LAMBDA t : get_citation_valid(t)) ELSE ts

\* the highlight appended for valid_triples[idx + 1], idx being 0-based
highlight_of(vts, idx, doc) ==
    LET t == vts[idx + 1]
        sp == locate(t.citation, doc)
    IN  [start |-> sp.start, end |-> sp.end, id |-> idx,
         color |-> get_citation_colors(idx),
         question |-> t.question, answer |-> t.answer, citation |-> t.citation]

RECURSIVE locate_all_keeping_unlocated(_, _, _)
\* the loop over valid_triples appending a highlight for every triple, located
\* or not
locate_all_keeping_unlocated(vts, idx, doc) ==
    IF idx >= Len(vts) THEN <<>>
    ELSE <<highlight_of(vts, idx, doc)>> \o locate_all_keeping_unlocated(vts, idx + 1, doc)

RECURSIVE locate_from(_, _, _, _)
\* the loop over valid_triples searching each citation from the end of the
\* match before it
locate_from(vts, idx, doc, from) ==
    IF idx >= Len(vts) THEN <<>>
    ELSE LET cit == vts[idx + 1].citation
             pos == Find(doc, cit, from)
         IN  IF pos = -1 THEN locate_from(vts, idx + 1, doc, from)
             ELSE <<[highlight_of(vts, idx, doc) EXCEPT !.start = pos,
                                                        !.end = pos + Len(cit)]>>
                  \o locate_from(vts, idx + 1, doc, pos + Len(cit))

locate_all_after_previous(vts, idx, doc) == locate_from(vts, idx, doc, 0)

RECURSIVE locate_all(_, _, _)
\* the loop over valid_triples, from index idx on
locate_all(vts, idx, doc) ==
    IF idx >= Len(vts) THEN <<>>
    ELSE IF locate(vts[idx + 1].citation, doc).found
         THEN <<highlight_of(vts, idx, doc)>> \o locate_all(vts, idx + 1, doc)
         ELSE locate_all(vts, idx + 1, doc)

\* a sort that puts the spans in ascending order and leaves id, colour and
\* payload where they were
sort_by_start_spans_only(hs) ==
    LET n == Len(hs)
        rank(i) == 1 + Cardinality({j \in 1..n :
                        \/ hs[j].start < hs[i].start
                        \/ hs[j].start = hs[i].start /\ j < i})
    IN  [k \in 1..n |->
            [hs[k] EXCEPT !.start = hs[CHOOSE i \in 1..n : rank(i) = k].start,
                          !.end = hs[CHOOSE i \in 1..n : rank(i) = k].end]]

\* highlights.sort(key=lambda x: x['start']): a stable sort
sort_by_start(hs) ==
    LET n == Len(hs)
        rank(i) == 1 + Cardinality({j \in 1..n :
                        \/ hs[j].start < hs[i].start
                        \/ hs[j].start = hs[i].start /\ j < i})
    IN  [k \in 1..n |-> hs[CHOOSE i \in 1..n : rank(i) = k]]

\* the legend items: one per valid triple whose id is in found_ids
legend_of(vts, hs) ==
    LET found_ids == {hs[k].id : k \in 1..Len(hs)}
        ids == SelectSeq([i \in 1..Len(vts) |-> i - 1], LAMBDA idx : idx \in found_ids)
    IN  [k \in 1..Len(ids) |->
            [id |-> ids[k], color |-> get_citation_colors(ids[k]),
             question |-> vts[ids[k] + 1].question]]

\* what _escape_html writes for one character
escape_char(c) ==
    IF c = "&" THEN <<"&", "a", "m", "p", ";">>
    ELSE IF c = "<" THEN <<"&", "l", "t", ";">>
    ELSE IF c = ">" THEN <<"&", "g", "t", ";">>
    ELSE IF c = "\"" THEN <<"&", "q", "u", "o", "t", ";">>
    ELSE IF c = "'" THEN <<"&", "#", "3", "9", ";">>
    ELSE <<c>>

RECURSIVE escape_html(_)
\* _escape_html(text): the ampersand is replaced first, so each character of
\* the text is replaced once
escape_html(text) ==
    IF text = <<>> THEN <<>> ELSE escape_char(Head(text)) \o escape_html(Tail(text))

\* the two items one iteration of the assembly loop appends: text is the
\* document slice taken, written is what is appended for it
emitted(doc, pos, highlight) ==
    << [kind |-> "text", text |-> Slice(doc, pos, highlight.start),
        written |-> escape_html(Slice(doc, pos, highlight.start)), id |-> -1,
        question |-> <<>>, answer |-> <<>>, start |-> pos, end |-> highlight.start],
       [kind |-> "mark", text |-> Slice(doc, highlight.start, highlight.end),
        written |-> escape_html(Slice(doc, highlight.start, highlight.end)),
        id |-> highlight.id, question |-> highlight.question,
        answer |-> highlight.answer, start |-> highlight.start, end |-> highlight.end] >>

\* the item appended after the loop
remaining(doc, pos) ==
    [kind |-> "text", text |-> Slice(doc, pos, Len(doc)),
     written |-> escape_html(Slice(doc, pos, Len(doc))), id |-> -1,
     question |-> <<>>, answer |-> <<>>, start |-> pos, end |-> Len(doc)]

----------------------------------------------------------------------------
(* Inputs of generate_triples and create_highlighted_html *)

MaxTriples == 2
MaxCitLen == 2
MaxHDocLen == 3

HChars == {"a", SIGMA, " "}

HDocumentInputs == StringsUpTo(HChars, MaxHDocLen)

HCitationInputs == StringsUpTo(HChars, MaxCitLen)

\* the citations of the triples parse_llm_response returns
ResponseInputs == UNION {[1..n -> HCitationInputs] : n \in 0..MaxTriples}

----------------------------------------------------------------------------
(* generate_triples, then create_highlighted_html on what it returned *)

InitH ==
    /\ GIdle
    /\ XIdle
    /\ document_content \in HDocumentInputs
    /\ hide_invalid \in BOOLEAN
    /\ triples = <<>>
    /\ hpc = "generate"
    /\ valid_triples = <<>>
    /\ highlights = <<>>
    /\ legend = <<>>
    /\ result = <<>>
    /\ last_pos = 0
    /\ html = "none"
    /\ citation = <<>>
    /\ vpc = "idle"
    /\ is_valid = FALSE

\* the triple built from the i-th parsed triple, its citation stripped by
\* parse_llm_response and flagged by validate_citation
validated_triple(i, cit, doc) ==
    [question |-> <<"question", i>>, answer |-> <<"answer", i>>,
     citation |-> Strip(cit),
     citation_valid |-> validate_citation(Strip(cit), doc)]

\* the citations of the triples parse_llm_response returns for a response,
\* each stripped
parse_llm_response(response) ==
    [i \in 1..Len(response) |-> Strip(response[i])]

\* the validation loop dropping the triples whose citation is invalid
validate_all_dropping_invalid(ts, doc) ==
    SelectSeq([i \in 1..Len(ts) |-> validated_triple(i, ts[i], doc)],
              LAMBDA t : t.citation_valid)

\* the validation loop of generate_triples: validated_triples
validate_all(ts, doc) ==
    [i \in 1..Len(ts) |-> validated_triple(i, ts[i], doc)]

\* generate_triples: the call and the parsing succeed and every parsed triple
\* is flagged, or an exception is caught and the empty list returned
GenerateTriples ==
    /\ hpc = "generate"
    /\ \/ \E response \in ResponseInputs :
            /\ parsed' = parse_llm_response(response)
            /\ raised' = FALSE
            /\ triples' = validate_all(parsed', document_content)
       \/ /\ parsed' = <<>>
          /\ raised' = TRUE
          /\ triples' = <<>>
    /\ hpc' = "highlight"
    /\ UNCHANGED <<document_content, vvars, xvars, hide_invalid, valid_triples, highlights,
                   legend, result, last_pos, html>>

\* create_highlighted_html up to the assembly loop
LocateHighlights ==
    /\ hpc = "highlight"
    /\ valid_triples' = filter_triples(triples, hide_invalid)
    /\ IF valid_triples' = <<>>
       THEN /\ html' = "no_valid_citations"
            /\ hpc' = "done"
            /\ UNCHANGED <<highlights, legend>>
       ELSE /\ highlights' = sort_by_start(locate_all(valid_triples', 0, document_content))
            /\ legend' = legend_of(valid_triples', highlights')
            /\ hpc' = "assemble"
            /\ UNCHANGED html
    /\ UNCHANGED <<document_content, vvars, gvars, xvars, triples, hide_invalid, result, last_pos>>

\* one iteration of the assembly loop: the highlights already emitted are the
\* marks of result
EmitHighlight ==
    /\ hpc = "assemble"
    /\ Len(result) < 2 * Len(highlights)
    /\ LET highlight == highlights[Len(result) \div 2 + 1]
       IN  /\ result' = result \o emitted(document_content, last_pos, highlight)
           /\ last_pos' = highlight.end
    /\ UNCHANGED <<document_content, vvars, gvars, xvars, triples, hide_invalid, hpc, valid_triples,
                   highlights, legend, html>>

\* after the loop: the remaining text, and the page is returned
EmitRemaining ==
    /\ hpc = "assemble"
    /\ Len(result) = 2 * Len(highlights)
    /\ result' = Append(result, remaining(document_content, last_pos))
    /\ html' = "viewer"
    /\ hpc' = "done"
    /\ UNCHANGED <<document_content, vvars, gvars, xvars, triples, hide_invalid, valid_triples,
                   highlights, legend, last_pos>>

NextH == GenerateTriples \/ LocateHighlights \/ EmitHighlight \/ EmitRemaining

SpecH == InitH /\ [][NextH]_vars

----------------------------------------------------------------------------
(* One citation: validate_citation, then create_highlighted_html on the    *)
(* triple that carries it                                                  *)

MaxTCitLen == 3
MaxTDocLen == 3

TCitChars == {"a", "A", SIGMA, " "}
TDocChars == {"a", SIGMA, " ", "\n"}

TCitationInputs == StringsUpTo(TCitChars, MaxTCitLen)

TDocumentInputs == StringsUpTo(TDocChars, MaxTDocLen)

\* the document and the three citations of the end-to-end scenario
ScenarioDocument ==
    << "T", "h", "e", " ", "s", "k", "y", " ", "i", "s", " ", "b", "l", "u",
       "e", ".", " ", "W", "a", "t", "e", "r", " ", "b", "o", "i", "l", "s",
       " ", "a", "t", " ", "1", "0", "0", " ", "d", "e", "g", "r", "e", "e",
       "s", " ", "C", "e", "l", "s", "i", "u", "s", " ", "a", "t", " ", "s",
       "e", "a", " ", "l", "e", "v", "e", "l", "." >>

ScenarioVerbatim ==
    << "W", "a", "t", "e", "r", " ", "b", "o", "i", "l", "s", " ", "a", "t",
       " ", "1", "0", "0", " ", "d", "e", "g", "r", "e", "e", "s", " ", "C",
       "e", "l", "s", "i", "u", "s" >>

ScenarioElided ==
    << "s", "k", "y", " ", "i", "s", " ", "b", "l", "u", "e", " ", ".", ".",
       ".", " ", "b", "o", "i", "l", "s", " ", "a", "t", " ", "1", "0", "0",
       " ", "d", "e", "g", "r", "e", "e", "s" >>

ScenarioAbsent ==
    << "W", "a", "t", "e", "r", " ", "f", "r", "e", "e", "z", "e", "s", " ",
       "a", "t", " ", "1", "0", "0", " ", "d", "e", "g", "r", "e", "e", "s" >>

ScenarioCitations == {ScenarioVerbatim, ScenarioElided, ScenarioAbsent}

InitT ==
    /\ GIdle
    /\ XIdle
    /\ \/ /\ citation \in TCitationInputs
          /\ document_content \in TDocumentInputs
       \/ /\ citation \in ScenarioCitations
          /\ document_content = ScenarioDocument
    /\ hide_invalid \in BOOLEAN
    /\ vpc = "call"
    /\ is_valid = FALSE
    /\ triples = <<>>
    /\ hpc = "idle"
    /\ valid_triples = <<>>
    /\ highlights = <<>>
    /\ legend = <<>>
    /\ result = <<>>
    /\ last_pos = 0
    /\ html = "none"

\* the triple of the validated citation is handed to create_highlighted_html
DisplayCitation ==
    /\ vpc = "return"
    /\ hpc = "idle"
    /\ triples' = << [question |-> <<"question", 1>>, answer |-> <<"answer", 1>>,
                      citation |-> citation, citation_valid |-> is_valid] >>
    /\ hpc' = "highlight"
    /\ UNCHANGED <<document_content, vvars, gvars, xvars, hide_invalid, valid_triples, highlights,
                   legend, result, last_pos, html>>

NextT ==
    \/ ValidateCitation
    \/ DisplayCitation
    \/ LocateHighlights
    \/ EmitHighlight
    \/ EmitRemaining

SpecT == InitT /\ [][NextT]_vars

----------------------------------------------------------------------------
(* One citation against a document of several words                        *)

MaxWCitLen == 3
MaxWDocLen == 4

WChars == {"a", "b", " "}

WCitationInputs == StringsUpTo(WChars, MaxWCitLen)

WDocumentInputs == StringsUpTo(WChars, MaxWDocLen)

InitW ==
    /\ GIdle
    /\ XIdle
    /\ citation \in WCitationInputs
    /\ document_content \in WDocumentInputs
    /\ hide_invalid \in BOOLEAN
    /\ vpc = "call"
    /\ is_valid = FALSE
    /\ triples = <<>>
    /\ hpc = "idle"
    /\ valid_triples = <<>>
    /\ highlights = <<>>
    /\ legend = <<>>
    /\ result = <<>>
    /\ last_pos = 0
    /\ html = "none"

SpecW == InitW /\ [][NextT]_vars

----------------------------------------------------------------------------
(* A batch of citations: the triples generate_triples saved, read back by  *)
(* load_dataset and handed to create_highlighted_html                      *)

MaxRows == 2
MaxLDocLen == 3

LDocChars == {"a", "b", " "}

LDocumentInputs == StringsUpTo(LDocChars, MaxLDocLen)

\* the citations of the rows
LCitationInputs ==
    { <<"a">>, <<"A">>, <<"a", " ", "a">>, <<"b">> }

DatasetInputs == UNION {[1..n -> LCitationInputs] : n \in 0..MaxRows}

InitL ==
    /\ GIdle
    /\ XIdle
    /\ document_content \in LDocumentInputs
    /\ hide_invalid \in BOOLEAN
    /\ triples = <<>>
    /\ hpc = "load"
    /\ valid_triples = <<>>
    /\ highlights = <<>>
    /\ legend = <<>>
    /\ result = <<>>
    /\ last_pos = 0
    /\ html = "none"
    /\ citation = <<>>
    /\ vpc = "idle"
    /\ is_valid = FALSE

\* load_dataset: the rows are the triples generate_triples built for the
\* document, each flagged by validate_citation
LoadDataset ==
    /\ hpc = "load"
    /\ \E rows \in DatasetInputs :
          triples' = [i \in 1..Len(rows) |->
                         validated_triple(i, rows[i], document_content)]
    /\ hpc' = "highlight"
    /\ UNCHANGED <<document_content, vvars, gvars, xvars, hide_invalid, valid_triples, highlights,
                   legend, result, last_pos, html>>

NextL == LoadDataset \/ LocateHighlights \/ EmitHighlight \/ EmitRemaining

SpecL == InitL /\ [][NextL]_vars

----------------------------------------------------------------------------
(* The rows of a JSON dataset file, with or without a citation_valid key,  *)
(* read by load_dataset and handed to create_highlighted_html              *)

MaxFRows == 2
MaxFDocLen == 2

FDocChars == {"a", "b"}

FDocumentInputs == StringsUpTo(FDocChars, MaxFDocLen)

FCitationInputs == { <<"a">>, <<"b">> }

\* a row with its citation_valid key, or without it
row_with_flag(i, cit, flag) ==
    [question |-> <<"question", i>>, answer |-> <<"answer", i>>,
     citation |-> cit, citation_valid |-> flag]

row_without_flag(i, cit) ==
    [question |-> <<"question", i>>, answer |-> <<"answer", i>>, citation |-> cit]

\* what a row holds besides its place: its citation, and its flag or none
RowShapes == FCitationInputs \X {"true", "false", "absent"}

row_of(i, shape) ==
    IF shape[2] = "absent" THEN row_without_flag(i, shape[1])
    ELSE row_with_flag(i, shape[1], shape[2] = "true")

FileInputs ==
    UNION {{[i \in 1..n |-> row_of(i, shapes[i])] : shapes \in [1..n -> RowShapes]} :
              n \in 0..MaxFRows}

InitF ==
    /\ GIdle
    /\ XIdle
    /\ document_content \in FDocumentInputs
    /\ hide_invalid \in BOOLEAN
    /\ triples = <<>>
    /\ hpc = "load"
    /\ valid_triples = <<>>
    /\ highlights = <<>>
    /\ legend = <<>>
    /\ result = <<>>
    /\ last_pos = 0
    /\ html = "none"
    /\ citation = <<>>
    /\ vpc = "idle"
    /\ is_valid = FALSE

\* load_dataset on a .json file: the rows are returned as they are
LoadRows ==
    /\ hpc = "load"
    /\ \E data \in FileInputs : triples' = data
    /\ hpc' = "highlight"
    /\ UNCHANGED <<document_content, vvars, gvars, xvars, hide_invalid, valid_triples, highlights,
                   legend, result, last_pos, html>>

NextF == LoadRows \/ LocateHighlights \/ EmitHighlight \/ EmitRemaining

SpecF == InitF /\ [][NextF]_vars

----------------------------------------------------------------------------
(* parser.py: truncate_to_token_limit.  A chunk is known by the number of   *)
(* tokens its text encodes to.                                             *)

MaxChunks == 3

\* the token counts of the chunks, and the budgets
ChunkTokenInputs == {0, 60, 101, 150, 300}

BudgetInputs == {0, 100, 101, 250, 400}

ChunkInputs == {[text_tokens |-> n] : n \in ChunkTokenInputs}

ChunksInputs == UNION {[1..n -> ChunkInputs] : n \in 0..MaxChunks}

\* len(self.encoding.encode(text))
count_tokens(chunk) == chunk.text_tokens

\* if remaining_tokens > 100
MeaningfulSpace == 100

\* a partial chunk added whenever any room is left
add_partial_whenever_room(remaining_tokens) == remaining_tokens > 0

\* "Only add if we have meaningful space"
add_partial(remaining_tokens) == remaining_tokens > MeaningfulSpace

\* decode(encode(chunk_text)[:remaining_tokens])
truncated_text(chunk, remaining_tokens) ==
    [text_tokens |-> IF count_tokens(chunk) < remaining_tokens
                     THEN count_tokens(chunk) ELSE remaining_tokens]

InitP ==
    /\ GIdle
    /\ WIdle
    /\ SIdle
    /\ chunks \in ChunksInputs
    /\ max_tokens \in BudgetInputs
    /\ chunk_index = 0
    /\ total_tokens = 0
    /\ chunk_metadata = <<>>
    /\ combined_text = <<>>
    /\ ppc = "loop"
    /\ document_content = <<>>
    /\ citation = <<>>
    /\ vpc = "idle"
    /\ is_valid = FALSE
    /\ HIdle

\* one iteration of the loop over chunks
TruncateIteration ==
    /\ ppc = "loop"
    /\ chunk_index < Len(chunks)
    /\ LET chunk == chunks[chunk_index + 1]
           chunk_tokens == count_tokens(chunk)
           remaining_tokens == max_tokens - total_tokens
       IN  IF total_tokens + chunk_tokens > max_tokens
           THEN /\ IF add_partial(remaining_tokens)
                   THEN /\ combined_text' =
                              Append(combined_text, truncated_text(chunk, remaining_tokens))
                        /\ chunk_metadata' =
                              Append(chunk_metadata,
                                     [chunk_id |-> chunk_index, tokens |-> remaining_tokens,
                                      truncated |-> TRUE])
                        /\ total_tokens' = total_tokens + remaining_tokens
                   ELSE UNCHANGED <<combined_text, chunk_metadata, total_tokens>>
                /\ ppc' = "break"
                /\ UNCHANGED chunk_index
           ELSE /\ combined_text' = Append(combined_text, chunk)
                /\ chunk_metadata' =
                      Append(chunk_metadata,
                             [chunk_id |-> chunk_index, tokens |-> chunk_tokens,
                              truncated |-> FALSE])
                /\ total_tokens' = total_tokens + chunk_tokens
                /\ chunk_index' = chunk_index + 1
                /\ UNCHANGED ppc
    /\ UNCHANGED <<chunks, max_tokens, document_content, vvars, hvars, gvars, wvars, svars>>

\* after the loop, ended by the break or by the end of the list
TruncateReturn ==
    /\ \/ ppc = "break"
       \/ ppc = "loop" /\ chunk_index = Len(chunks)
    /\ ppc' = "done"
    /\ UNCHANGED <<chunks, max_tokens, chunk_index, total_tokens, chunk_metadata,
                   combined_text, document_content, vvars, hvars, gvars, wvars, svars>>

NextP == TruncateIteration \/ TruncateReturn

SpecP == InitP /\ [][NextP]_vars

----------------------------------------------------------------------------
(* writer.py: DatasetWriter.write, and gui_backend.py: load_dataset on the *)
(* file written                                                           *)

MaxWrittenRows == 2

CARRIAGE_RETURN == "U+000D"

\* the texts of a triple
WrittenCitationInputs == { <<"a">>, <<"a", "\n", "b">>, <<"a", CARRIAGE_RETURN, "b">> }

SourceFileInputs == { <<"d", ".", "m", "d">>, <<"e", ".", "m", "d">> }

WrittenTripleInputs ==
    {[question |-> <<"q">>, answer |-> <<"a">>, citation |-> cit,
      citation_valid |-> flag, metadata |-> [file_type |-> <<".", "m", "d">>]] :
        cit \in WrittenCitationInputs, flag \in BOOLEAN}

\* a non-empty list of triples
WrittenInputs == UNION {[1..n -> WrittenTripleInputs] : n \in 1..MaxWrittenRows}

SUPPORTED_FORMATS == {"csv", "json", "jsonl"}

\* flatten_triple(triple, source_file), without the columns load_dataset
\* never reads
flatten_triple(triple, src) ==
    [source_file |-> src,
     question |-> triple.question,
     answer |-> triple.answer,
     citation |-> triple.citation,
     citation_valid |-> get_citation_valid(triple)]

\* str(value) of a boolean cell
str_bool(b) == IF b THEN <<"T", "r", "u", "e">> ELSE <<"F", "a", "l", "s", "e">>

\* df.to_csv(..., quoting=csv.QUOTE_ALL): every cell written as text
csv_row(flat) ==
    [source_file |-> flat.source_file,
     question |-> flat.question,
     answer |-> flat.answer,
     citation |-> flat.citation,
     citation_valid |-> str_bool(flat.citation_valid)]

RECURSIVE universal_newlines(_)
\* open(file_path, 'r'): "\r\n" and "\r" are read as "\n"
universal_newlines(text) ==
    IF text = <<>> THEN <<>>
    ELSE IF Head(text) = CARRIAGE_RETURN
         THEN IF Len(text) > 1 /\ text[2] = "\n"
              THEN <<"\n">> \o universal_newlines(Tail(Tail(text)))
              ELSE <<"\n">> \o universal_newlines(Tail(text))
         ELSE <<Head(text)>> \o universal_newlines(Tail(text))

\* the row csv.DictReader yields for a row of the file
csv_read(row) ==
    [source_file |-> universal_newlines(row.source_file),
     question |-> universal_newlines(row.question),
     answer |-> universal_newlines(row.answer),
     citation |-> universal_newlines(row.citation),
     citation_valid |-> universal_newlines(row.citation_valid)]

\* the triple load_dataset appends for a row of a .csv file
csv_triple(row) ==
    [question |-> row.question,
     answer |-> row.answer,
     citation |-> row.citation,
     citation_valid |-> (Lower(row.citation_valid) = <<"t", "r", "u", "e">>)]

RECURSIVE csv_source_doc(_)
\* the source_file of the first row that has one
csv_source_doc(rows) ==
    IF rows = <<>> THEN <<>>
    ELSE IF Head(rows).source_file # <<>> THEN Head(rows).source_file
         ELSE csv_source_doc(Tail(rows))

\* triples[0]['metadata'].get('source_file', '') if 'metadata' in triples[0]
json_source_doc(rows) ==
    IF rows # <<>> /\ "metadata" \in DOMAIN rows[1]
    THEN IF "source_file" \in DOMAIN rows[1].metadata
         THEN rows[1].metadata.source_file ELSE <<>>
    ELSE <<>>

InitR ==
    /\ GIdle
    /\ PIdle
    /\ SIdle
    /\ output_format \in SUPPORTED_FORMATS
    /\ source_file \in SourceFileInputs
    /\ written \in WrittenInputs
    /\ dataset_file = <<>>
    /\ loaded = <<>>
    /\ source_doc = <<>>
    /\ wpc = "write"
    /\ document_content = <<>>
    /\ citation = <<>>
    /\ vpc = "idle"
    /\ is_valid = FALSE
    /\ HIdle

\* DatasetWriter.write: write_csv, write_json or write_jsonl
WriteDataset ==
    /\ wpc = "write"
    /\ LET flattened == [i \in 1..Len(written) |-> flatten_triple(written[i], source_file)]
       IN  dataset_file' =
              IF output_format = "csv"
              THEN [i \in 1..Len(flattened) |-> csv_row(flattened[i])]
              ELSE flattened
    /\ wpc' = "load"
    /\ UNCHANGED <<output_format, source_file, written, loaded, source_doc,
                   document_content, vvars, hvars, gvars, pvars, svars>>

\* load_dataset on the file written
LoadDatasetFile ==
    /\ wpc = "load"
    /\ IF output_format = "csv"
       THEN LET rows == [i \in 1..Len(dataset_file) |-> csv_read(dataset_file[i])]
            IN  /\ loaded' = [i \in 1..Len(rows) |-> csv_triple(rows[i])]
                /\ source_doc' = csv_source_doc(rows)
       ELSE /\ loaded' = dataset_file
            /\ source_doc' = json_source_doc(dataset_file)
    /\ wpc' = "done"
    /\ UNCHANGED <<output_format, source_file, written, dataset_file,
                   document_content, vvars, hvars, gvars, pvars, svars>>

NextR == WriteDataset \/ LoadDatasetFile

SpecR == InitR /\ [][NextR]_vars

----------------------------------------------------------------------------
(* generator.py: the loop over the parts of one split, on its own          *)

MaxParts == 3
MaxNormDocLen == 4

PartInputs == { <<"a">>, <<"b">>, <<"a", "b">>, <<"b", "a">> }

PartsInputs == UNION {[1..n -> PartInputs] : n \in 1..MaxParts}

NormDocInputs == StringsUpTo({"a", "b"}, MaxNormDocLen)

InitS ==
    /\ GIdle
    /\ PIdle
    /\ WIdle
    /\ search_parts \in PartsInputs
    /\ search_doc \in NormDocInputs
    /\ found = FALSE
    /\ spc = "search"
    /\ document_content = <<>>
    /\ citation = <<>>
    /\ vpc = "idle"
    /\ is_valid = FALSE
    /\ HIdle

\* the loop over parts, last_pos starting at -1
SearchParts ==
    /\ spc = "search"
    /\ found' = all_found(search_parts, search_doc, -1)
    /\ spc' = "done"
    /\ UNCHANGED <<search_parts, search_doc, document_content, vvars, hvars, gvars,
                   pvars, wvars>>

NextS == SearchParts

SpecS == InitS /\ [][NextS]_vars

----------------------------------------------------------------------------
(* validate_citation on citations that join three fragments with two       *)
(* different marker forms                                                  *)

MaxFragLen == 2
MaxMDocLen == 5

MDocChars == {"a", "[", "]"}

MDocumentInputs == StringsUpTo(MDocChars, MaxMDocLen)

\* the middle fragment; the outer two are "a"
FragmentInputs == {[i \in 1..n |-> "a"] : n \in 1..MaxFragLen}

\* a middle fragment and the two forms, by their place in ellipsis_patterns
MixedShapes ==
    {sh \in [f2 : FragmentInputs, m1 : 1..Len(ellipsis_patterns),
             m2 : 1..Len(ellipsis_patterns)] : sh.m1 # sh.m2}

MixedFragments(sh) == << <<"a">>, sh.f2, <<"a">> >>

MixedCitation(sh) ==
    <<"a">> \o ellipsis_patterns[sh.m1] \o sh.f2 \o ellipsis_patterns[sh.m2] \o <<"a">>

MixedCitationInputs == {MixedCitation(sh) : sh \in MixedShapes}

InitM ==
    /\ GIdle
    /\ XIdle
    /\ citation \in MixedCitationInputs
    /\ document_content \in MDocumentInputs
    /\ vpc = "call"
    /\ is_valid = FALSE
    /\ HIdle

SpecM == InitM /\ [][NextV]_vars

----------------------------------------------------------------------------
(* Vocabulary of the properties *)

\* m occurs somewhere in s
HasText(s, m) == \E p \in 0..Len(s) : OccursAt(s, m, p)

NormDoc == normalized(document_content)

NormCit == normalized(citation)

\* the Exact Validator: normalize(citation) is a contiguous part of normalize(document)
ExactMatch == HasText(NormDoc, NormCit)

\* the four recognized marker forms, in their fixed order
RecognizedMarkers ==
    << <<".", ".", ".">>, <<ELLIPSIS>>,
       <<"[", ".", ".", ".", "]">>, <<"[", ELLIPSIS, "]">> >>

\* the parts the k-th form splits the normalized citation into, empty ones included
PartsOf(k) == re_split(RecognizedMarkers[k], NormCit)

\* the non-empty segments the k-th form leaves
SegmentsOf(k) == nonempty_parts(PartsOf(k))

\* the segments occur in nd at strictly increasing start positions
InOrder(segs, nd) ==
    \E f \in [1..Len(segs) -> 0..Len(nd)] :
        /\ \A i \in 1..Len(segs) : OccursAt(nd, segs[i], f[i])
        /\ \A i \in 1..(Len(segs) - 1) : f[i] < f[i + 1]

\* the segments occur in nd one after the other, no two sharing a character
InOrderDisjoint(segs, nd) ==
    \E f \in [1..Len(segs) -> 0..Len(nd)] :
        /\ \A i \in 1..Len(segs) : OccursAt(nd, segs[i], f[i])
        /\ \A i \in 1..(Len(segs) - 1) : f[i] + Len(segs[i]) <= f[i + 1]

\* the citation holds no recognized marker: neither three dots nor the glyph
NoMarker(cit) == ~HasText(cit, <<".", ".", ".">>) /\ ~HasText(cit, <<ELLIPSIS>>)

Returned == vpc = "return"

----------------------------------------------------------------------------
(* Properties of validate_citation, under SpecV *)

\* C4: validate_citation returns true whenever normalize(citation) is a
\* contiguous substring of normalize(document), with or without markers; and
\* for a citation that holds no recognized marker (a single dot is none) it
\* returns true only then.
C4_ExactDecidesWithoutMarker ==
    Returned =>
        /\ ExactMatch => is_valid
        /\ NoMarker(citation) => (is_valid <=> ExactMatch)

\* a call returned false for a citation with a single dot whose two sides
\* occur in the document in order
C4_Witness ==
    /\ Returned
    /\ NoMarker(citation)
    /\ HasText(citation, <<".">>)
    /\ HasText(NormDoc, <<"a", SHARP_S>>)
    /\ HasText(citation, <<"a", ".", SHARP_S>>)
    /\ ~is_valid

\* C5: a citation accepted through the elided path has, for one of the marker
\* forms, segments that occur in normalize(document) at start positions
\* p1 < p2 < ... < pn; so a citation whose segments occur only in another
\* order is rejected.
C5_ElidedSegmentsInOrder ==
    (Returned /\ ~ExactMatch /\ is_valid) =>
        \E k \in 1..Len(RecognizedMarkers) :
            /\ Len(PartsOf(k)) > 1
            /\ InOrder(SegmentsOf(k), NormDoc)

\* a call rejected "b ... a"-like input: two segments that both occur in the
\* document, but only in the reverse order
C5_Witness ==
    /\ Returned
    /\ ~is_valid
    /\ Len(SegmentsOf(1)) = 2
    /\ \A i \in 1..2 : HasText(NormDoc, SegmentsOf(1)[i])
    /\ InOrder(<<SegmentsOf(1)[2], SegmentsOf(1)[1]>>, NormDoc)
    /\ ~InOrder(SegmentsOf(1), NormDoc)

\* C6 (as claimed): a citation accepted through the elided path has segments
\* that can be matched in order at ranges that do not overlap; segments that
\* match only at overlapping ranges are rejected.
C6_OverlappingSegmentsRejected ==
    (Returned /\ ~ExactMatch /\ is_valid) =>
        \E k \in 1..Len(RecognizedMarkers) :
            /\ Len(PartsOf(k)) > 1
            /\ InOrderDisjoint(SegmentsOf(k), NormDoc)

\* C7: each of the four marker forms works on its own: for segments S1, S2
\* that occur in normalize(document), S1 starting strictly before S2, the
\* citation "S1 <marker> S2" is valid.
C7_EachMarkerFormWorks ==
    Returned =>
        \A k \in 1..Len(RecognizedMarkers) :
            \A s1, s2 \in SegInputs \ {<<>>} :
                ( /\ citation = s1 \o <<" ">> \o RecognizedMarkers[k] \o <<" ">> \o s2
                  /\ \E p, q \in 0..Len(NormDoc) :
                        /\ p < q
                        /\ OccursAt(NormDoc, s1, p)
                        /\ OccursAt(NormDoc, s2, q) )
                => is_valid

\* a call accepted "S1 [...] S2", which the three-dot form splits first
\* into parts that are not in the document
C7_Witness ==
    /\ Returned
    /\ is_valid
    /\ ~ExactMatch
    /\ HasText(citation, RecognizedMarkers[3])
    /\ Len(SegmentsOf(3)) = 2
    /\ ~InOrder(SegmentsOf(1), NormDoc)

\* C8 (as claimed): the first form that splits the normalized citation into
\* two or more non-empty parts decides alone: if its parts are not all found
\* in order the citation is invalid.
C8_FirstSplittingFormDecides ==
    (Returned /\ ~ExactMatch) =>
        \A k \in 1..Len(RecognizedMarkers) :
            ( /\ Len(SegmentsOf(k)) >= 2
              /\ \A j \in 1..(k - 1) : Len(SegmentsOf(j)) < 2
              /\ ~InOrder(SegmentsOf(k), NormDoc) )
            => ~is_valid

\* C8 (amended): the forms are tried in the fixed order; a form that splits
\* the citation and leaves no non-empty part makes it invalid at once, a form
\* whose parts are all found in order makes it valid, and a form whose parts
\* are not all found decides nothing: the next form is tried.
C8_FormsTriedUntilOneSucceeds ==
    (Returned /\ ~ExactMatch) =>
        ( is_valid <=>
            \E k \in 1..Len(RecognizedMarkers) :
                /\ Len(PartsOf(k)) > 1
                /\ SegmentsOf(k) # <<>>
                /\ InOrder(SegmentsOf(k), NormDoc)
                /\ \A j \in 1..(k - 1) :
                      Len(PartsOf(j)) > 1 => SegmentsOf(j) # <<>> )

\* a call accepted a citation by a later form after the three-dot form had
\* split it into two non-empty parts that are not in the document
C8_Witness ==
    /\ Returned
    /\ is_valid
    /\ ~ExactMatch
    /\ Len(SegmentsOf(1)) >= 2
    /\ ~InOrder(SegmentsOf(1), NormDoc)
    /\ \E k \in 2..Len(RecognizedMarkers) : InOrder(SegmentsOf(k), NormDoc)

\* C9 (as claimed): when no form splits the normalized citation into two or
\* more non-empty parts (only a leading or trailing ellipsis, say), the result
\* is the exact-match result.
C9_NoTwoSegmentsMeansExact ==
    Returned =>
        ( (\A k \in 1..Len(RecognizedMarkers) : Len(SegmentsOf(k)) < 2)
          => (is_valid <=> ExactMatch) )

\* C9 (amended): when no form splits the normalized citation into two or
\* more parts, empty parts counted, the result is the exact-match result.
C9_NoSplitMeansExact ==
    Returned =>
        ( (\A k \in 1..Len(RecognizedMarkers) : Len(PartsOf(k)) < 2)
          => (is_valid <=> ExactMatch) )

\* a call returned the exact-match result, false, for a citation with dots
\* that no form splits, although each side of the dot is in the document
C9_Witness ==
    /\ Returned
    /\ \A k \in 1..Len(RecognizedMarkers) : Len(PartsOf(k)) < 2
    /\ HasText(NormCit, <<".">>)
    /\ Len(NormCit) >= 3
    /\ HasText(NormDoc, <<NormCit[1]>>)
    /\ HasText(NormDoc, <<NormCit[Len(NormCit)]>>)
    /\ ~is_valid

\* C10 (as claimed): case invariance: validate(upper(C), D) = validate(C, D)
\* = validate(lower(C), D) for every citation C and document D.
C10_CaseInvariance ==
    Returned =>
        /\ validate_citation(Upper(citation), document_content) = is_valid
        /\ validate_citation(Lower(citation), document_content) = is_valid

----------------------------------------------------------------------------
(* Properties of create_highlighted_html, under SpecH *)

RECURSIVE ConcatText(_)
\* the texts of the emitted slices, concatenated in order
ConcatText(items) ==
    IF items = <<>> THEN <<>> ELSE Head(items).text \o ConcatText(Tail(items))

Rendered == hpc = "done" /\ html = "viewer"

\* C1 (as claimed): the unmarked and marked slices the assembly loop emits,
\* concatenated in order, reproduce the document exactly, also when the
\* located highlights overlap or are nested.
C1_SlicesReproduceDocument ==
    Rendered => ConcatText(result) = document_content

\* C2 (as claimed): no two marked regions of one rendering share a document
\* character.
C2_MarkedRegionsDisjoint ==
    \A i, j \in 1..Len(result) :
        (i < j /\ result[i].kind = "mark" /\ result[j].kind = "mark")
        => ~(result[i].start < result[j].end /\ result[j].start < result[i].end)

\* the first index at which S occurs in doc
FirstIndex(doc, S) ==
    CHOOSE p \in 0..Len(doc) :
        OccursAt(doc, S, p) /\ \A q \in 0..(p - 1) : ~OccursAt(doc, S, q)

Verbatim(S, doc) == S # <<>> /\ HasText(doc, S)

\* C3 (as claimed): a non-empty string S that occurs verbatim in the document is valid,
\* and the locator records for it the span [p, p + len(S)) of its first
\* occurrence p, which reads S.
C3_VerbatimIsValidAndLocatedFirst ==
    \A i \in 1..Len(triples) :
        Verbatim(triples[i].citation, document_content) =>
            /\ triples[i].citation_valid
            /\ hpc \in {"assemble", "done"} =>
                  \E idx \in 0..(Len(valid_triples) - 1) :
                      /\ valid_triples[idx + 1] = triples[i]
                      /\ \E k \in 1..Len(highlights) :
                            LET h == highlights[k]
                            IN  /\ h.id = idx
                                /\ h.start = FirstIndex(document_content, h.citation)
                                /\ h.end = h.start + Len(h.citation)
                                /\ Slice(document_content, h.start, h.end) = h.citation

----------------------------------------------------------------------------
(* Properties of the locator for one citation, under SpecT *)

\* the locator loop of create_highlighted_html has run
Located == hpc \in {"assemble", "done"} /\ valid_triples # <<>>

RECURSIVE CollapseRuns(_)
\* the text with every whitespace run written as one space
CollapseRuns(s) ==
    IF s = <<>> THEN <<>>
    ELSE IF IsSpace(Head(s))
         THEN IF Len(s) > 1 /\ IsSpace(s[2])
              THEN CollapseRuns(Tail(s))
              ELSE <<" ">> \o CollapseRuns(Tail(s))
         ELSE <<Head(s)>> \o CollapseRuns(Tail(s))

\* every whitespace run of the text is one character long
SingleRuns(s) == \A i \in 1..(Len(s) - 1) : ~(IsSpace(s[i]) /\ IsSpace(s[i + 1]))

\* doc[s..e) has the non-whitespace characters of cit, with one or more
\* whitespace characters wherever cit has whitespace
Stretch(doc, s, e, cit) ==
    /\ 0 <= s /\ s <= e /\ e <= Len(doc)
    /\ CollapseRuns(Slice(doc, s, e)) = CollapseRuns(cit)

\* cit differs from some excerpt of doc only in its whitespace runs
SameButWhitespace(cit, doc) ==
    \E s \in 0..Len(doc) : \E e \in s..Len(doc) : Stretch(doc, s, e, cit)

\* [s, e) is the leftmost stretch of doc for cit, taken with all the
\* whitespace that ends it
LeftmostStretch(doc, s, e, cit) ==
    /\ Stretch(doc, s, e, cit)
    /\ \A s2 \in 0..(s - 1) : \A e2 \in s2..Len(doc) : ~Stretch(doc, s2, e2, cit)
    /\ \A e2 \in (e + 1)..Len(doc) : ~Stretch(doc, s, e2, cit)

\* C11 (as claimed): a citation that differs from a verbatim excerpt only in
\* that each whitespace run of the excerpt is one whitespace character in the
\* citation, and that does not occur verbatim, validates true, fails Tier 1,
\* and is located by Tier 2 at the leftmost stretch of the document that has
\* its non-whitespace characters and whitespace at its whitespace positions.
C11_SingleRunsValidAndTier2 ==
    ( /\ SingleRuns(citation)
      /\ SameButWhitespace(citation, document_content)
      /\ ~HasText(document_content, citation) )
    => /\ Returned => is_valid
       /\ (hpc \in {"assemble", "done"} /\ ~hide_invalid) =>
             /\ Len(highlights) = 1
             /\ LeftmostStretch(document_content, highlights[1].start,
                                highlights[1].end, citation)

\* C12 (as claimed): Tier 2 takes every whitespace run of the citation,
\* whatever its length, as one or more whitespace characters: a citation that
\* differs from an excerpt only in the length or kind of its whitespace runs,
\* and is not found verbatim, is located at a stretch of the document that
\* has its non-whitespace characters and whitespace at its whitespace runs.
C12_AnyRunLengthMatched ==
    ( /\ hpc \in {"assemble", "done"}
      /\ ~hide_invalid
      /\ SameButWhitespace(citation, document_content)
      /\ ~HasText(document_content, citation) )
    => /\ Len(highlights) = 1
       /\ Stretch(document_content, highlights[1].start, highlights[1].end, citation)

\* the Normalizer's view of the citation is part of the Normalizer's view of
\* the document, and is not empty
NormalizedMatch == NormCit # <<>> /\ HasText(NormDoc, NormCit)

\* no stretch of the document reads as the citation, whitespace runs aside:
\* Tiers 1 and 2 fail
NoStretch == ~SameButWhitespace(citation, document_content)

\* C13 (as claimed): whenever Tiers 1 and 2 fail and the whitespace-collapsed,
\* lowercased citation is a substring of the whitespace-collapsed, lowercased
\* document, the locator produces a span.
C13_Tier3ComparesLowercased ==
    ( /\ hpc \in {"assemble", "done"}
      /\ ~hide_invalid
      /\ NoStretch
      /\ NormalizedMatch )
    => Len(highlights) = 1

\* the highlight was produced by Tier 3: Tiers 1 and 2 find nothing for its
\* citation
ByTier3(h) ==
    /\ ~tier1(h.citation, document_content).found
    /\ ~tier2(h.citation, document_content).found

\* C14: every highlight the locator records, whichever tier produced it and
\* Tier 3's end fallback included, has 0 <= start <= end <= len(document).
C14_SpanWithinDocument ==
    \A k \in 1..Len(highlights) :
        /\ 0 <= highlights[k].start
        /\ highlights[k].start <= highlights[k].end
        /\ highlights[k].end <= Len(document_content)

\* a rendering finished with a Tier 3 highlight whose end is the end of the
\* document because start + len(citation) lies beyond it
C14_Witness ==
    /\ Rendered
    /\ Len(highlights) = 1
    /\ ByTier3(highlights[1])
    /\ highlights[1].start + Len(highlights[1].citation) > Len(document_content)
    /\ highlights[1].end = Len(document_content)

\* C15 (as claimed): a citation that is empty or only whitespace is invalid
\* against every document.
C15_BlankCitationInvalid ==
    (Returned /\ Strip(citation) = <<>>) => ~is_valid

\* C16 (as claimed): a citation that is empty or only whitespace is never
\* located: no highlight, no marked region and no legend entry is produced.
C16_BlankCitationNotLocated ==
    Strip(citation) = <<>> =>
        /\ highlights = <<>>
        /\ legend = <<>>
        /\ \A i \in 1..Len(result) : result[i].kind # "mark"

\* C18: the end-to-end scenario: the verbatim citation validates true and is
\* located by Tier 1 from the offset of "Water" to the end of "Celsius"; the
\* elided citation validates true through the elided path; the citation with
\* "freezes" validates false.
C18_EndToEndScenario ==
    document_content = ScenarioDocument =>
        /\ Returned =>
              /\ citation = ScenarioVerbatim => is_valid
              /\ citation = ScenarioElided => (is_valid /\ ~ExactMatch)
              /\ citation = ScenarioAbsent => ~is_valid
        /\ (hpc \in {"assemble", "done"} /\ citation = ScenarioVerbatim) =>
              /\ Len(highlights) = 1
              /\ highlights[1].start =
                    FirstIndex(ScenarioDocument, <<"W", "a", "t", "e", "r">>)
              /\ highlights[1].end =
                    FirstIndex(ScenarioDocument, <<"C", "e", "l", "s", "i", "u", "s">>) + 7
              /\ HasText(ScenarioDocument, citation)

\* the scenario's verbatim citation was rendered as one marked region that
\* reads the citation
C18_Witness ==
    /\ Rendered
    /\ document_content = ScenarioDocument
    /\ citation = ScenarioVerbatim
    /\ is_valid
    /\ \E i \in 1..Len(result) :
          result[i].kind = "mark" /\ result[i].text = ScenarioVerbatim

\* the places of the whitespace characters that follow a non-whitespace
\* character
WordBoundaries(doc) ==
    {i \in 1..(Len(doc) - 1) : IsSpace(doc[i + 1]) /\ ~IsSpace(doc[i])}

\* the offset reached after crossing exactly k word boundaries of doc
OffsetAfterBoundaries(doc, k) ==
    IF k = 0 THEN 0
    ELSE CHOOSE i \in WordBoundaries(doc) :
            Cardinality({j \in WordBoundaries(doc) : j <= i}) = k

\* the number of words before the first occurrence of the whitespace-collapsed
\* citation in the whitespace-collapsed document
WordsBefore(cit, doc) ==
    Len(Split(Slice(CollapseRuns(Strip(doc)), 0,
                    FirstIndex(CollapseRuns(Strip(doc)), CollapseRuns(Strip(cit))))))

\* C20 (as claimed): a Tier 3 span starts at the offset reached after
\* crossing exactly target_word_count word boundaries of the document; when
\* the citation matches at the very beginning (target_word_count = 0) it
\* starts at offset 0.
C20_Tier3StartOffset ==
    \A k \in 1..Len(highlights) :
        ( /\ ByTier3(highlights[k])
          /\ WordsBefore(highlights[k].citation, document_content)
                <= Cardinality(WordBoundaries(document_content)) )
        => highlights[k].start =
              OffsetAfterBoundaries(document_content,
                  WordsBefore(highlights[k].citation, document_content))

----------------------------------------------------------------------------
(* Properties of a batch of citations, under SpecL *)

\* Tier 1, Tier 2 and Tier 3's lookup of the whitespace-collapsed citation in
\* the whitespace-collapsed document all fail for cit
Unlocatable(cit) ==
    /\ ~tier1(cit, document_content).found
    /\ ~tier2(cit, document_content).found
    /\ ~HasText(CollapseRuns(Strip(document_content)), CollapseRuns(Strip(cit)))

\* the citations with their spans
SpansOf(hs) == {<<hs[k].citation, hs[k].start, hs[k].end>> : k \in 1..Len(hs)}

\* C17: a citation for which all three tiers fail gets no marked region and
\* no legend entry, its citation_valid flag being true or not, and the
\* rendering completes with the highlights of the other citations as they are
\* without it.
C17_UnlocatedCitationNotDisplayed ==
    Located =>
        /\ \A i \in 1..Len(valid_triples) :
              Unlocatable(valid_triples[i].citation) =>
                 /\ \A k \in 1..Len(highlights) : highlights[k].id # i - 1
                 /\ \A k \in 1..Len(legend) : legend[k].id # i - 1
                 /\ \A k \in 1..Len(result) : result[k].id # i - 1
        /\ SpansOf(highlights) =
              SpansOf(locate_all(SelectSeq(valid_triples,
                                           LAMBDA t : ~Unlocatable(t.citation)),
                                 0, document_content))
        /\ hpc = "done" => html = "viewer"

\* a rendering finished in which a citation flagged valid failed all three
\* tiers and another citation was marked
C17_Witness ==
    /\ Rendered
    /\ \E i \in 1..Len(valid_triples) :
          /\ valid_triples[i].citation_valid
          /\ Unlocatable(valid_triples[i].citation)
    /\ \E k \in 1..Len(result) : result[k].kind = "mark"

Reverse(seq) == [k \in 1..Len(seq) |-> seq[Len(seq) + 1 - k]]

\* what the locator records for cit when it is the only citation of the batch
AloneSpans(cit) ==
    SpansOf(locate_all(<< [question |-> <<"question", 1>>, answer |-> <<"answer", 1>>,
                           citation |-> cit, citation_valid |-> TRUE] >>,
                       0, document_content))

----------------------------------------------------------------------------
(* Properties of the word-count alignment, under SpecW *)

\* the first occurrence of the whitespace-collapsed citation in the
\* whitespace-collapsed document begins at the start of a word that has a word
\* before it, and ends at the end of a word
WholeWordMatch(cit, doc) ==
    LET nd == CollapseRuns(Strip(doc))
        nc == CollapseRuns(Strip(cit))
    IN  /\ nc # <<>>
        /\ HasText(nd, nc)
        /\ LET q == FirstIndex(nd, nc)
           IN  /\ q > 0
               /\ IsSpace(nd[q])
               /\ \/ q + Len(nc) = Len(nd)
                  \/ IsSpace(nd[q + Len(nc) + 1])

\* C21 (as claimed): when Tier 3 is used and the first occurrence of the
\* normalized citation in the normalized document is a run of whole words
\* with at least one word before it, the text of the recorded span, its
\* whitespace collapsed and trimmed, is the normalized citation.
C21_Tier3WholeWords ==
    \A k \in 1..Len(highlights) :
        ( /\ ByTier3(highlights[k])
          /\ WholeWordMatch(highlights[k].citation, document_content) )
        => CollapseRuns(Strip(Slice(document_content, highlights[k].start,
                                    highlights[k].end)))
           = CollapseRuns(Strip(highlights[k].citation))

\* the marked regions of the page, in the order they were emitted
Marks == SelectSeq(result, LAMBDA item : item.kind = "mark")

\* C22: the marked regions are emitted in ascending order of span start
\* whatever the order of the triples, and each carries the id, the question
\* and the answer of the citation whose located span it marks.
C22_MarksSortedWithOwnPayload ==
    /\ \A k \in 1..(Len(Marks) - 1) : Marks[k].start <= Marks[k + 1].start
    /\ \A k \in 1..Len(Marks) :
          /\ Marks[k].id \in 0..(Len(valid_triples) - 1)
          /\ Marks[k].question = valid_triples[Marks[k].id + 1].question
          /\ Marks[k].answer = valid_triples[Marks[k].id + 1].answer
          /\ <<valid_triples[Marks[k].id + 1].citation, Marks[k].start, Marks[k].end>>
                \in AloneSpans(valid_triples[Marks[k].id + 1].citation)
    /\ \A k \in 1..Len(highlights) :
          highlights[k].color = get_citation_colors(highlights[k].id)

\* a page was assembled whose first marked region belongs to the second
\* triple and whose second marked region, further on, to the first
C22_Witness ==
    /\ Rendered
    /\ Len(Marks) = 2
    /\ Marks[1].id = 1
    /\ Marks[2].id = 0
    /\ Marks[1].start < Marks[2].start
    /\ Marks[1].question # Marks[2].question

----------------------------------------------------------------------------
(* Properties of the filter of create_highlighted_html, under SpecF *)

FlaggedInvalid(t) == "citation_valid" \in DOMAIN t /\ t.citation_valid = FALSE

\* C23: with hide_invalid set, a triple whose citation_valid is false yields
\* no marked region and no legend entry, a triple without the key is treated
\* as valid, and when no triple is valid the result is the notice, with no
\* document text.
C23_OnlyValidHighlighted ==
    (hide_invalid /\ hpc \in {"assemble", "done"}) =>
        /\ valid_triples = SelectSeq(triples, LAMBDA t : ~FlaggedInvalid(t))
        /\ \A k \in 1..Len(highlights) :
              ~FlaggedInvalid(valid_triples[highlights[k].id + 1])
        /\ \A k \in 1..Len(legend) : ~FlaggedInvalid(valid_triples[legend[k].id + 1])
        /\ \A k \in 1..Len(Marks) : ~FlaggedInvalid(valid_triples[Marks[k].id + 1])
        /\ \A i \in 1..Len(triples) :
              FlaggedInvalid(triples[i]) =>
                 /\ \A k \in 1..Len(Marks) : Marks[k].question # triples[i].question
                 /\ \A k \in 1..Len(legend) : legend[k].question # triples[i].question
        /\ (\A i \in 1..Len(triples) : FlaggedInvalid(triples[i])) =>
              /\ html = "no_valid_citations"
              /\ result = <<>>

\* a page was assembled, invalid citations hidden, that marks the citation of
\* a row without the key and not the locatable citation of a row flagged false
C23_Witness ==
    /\ Rendered
    /\ hide_invalid
    /\ Len(triples) = 2
    /\ FlaggedInvalid(triples[1])
    /\ HasText(document_content, triples[1].citation)
    /\ "citation_valid" \notin DOMAIN triples[2]
    /\ Len(Marks) = 1
    /\ Marks[1].question = triples[2].question

----------------------------------------------------------------------------
(* Properties of generate_triples, under SpecH *)

Generated == hpc # "generate"

\* C24: generate_triples returns one entry per parsed triple, in the same
\* order, each flagged with validate_citation of its citation against the
\* document, invalid ones kept with the flag false; when the call or the
\* parsing raises it returns the empty list.
C24_FlaggedNotDropped ==
    Generated =>
        /\ ~raised =>
              /\ Len(triples) = Len(parsed)
              /\ \A i \in 1..Len(parsed) :
                    /\ triples[i].citation = parsed[i]
                    /\ triples[i].question = <<"question", i>>
                    /\ triples[i].answer = <<"answer", i>>
                    /\ triples[i].citation_valid
                          = validate_citation(parsed[i], document_content)
        /\ raised => triples = <<>>

\* generate_triples returned two triples, the first flagged invalid and the
\* second valid
C24_Witness ==
    /\ Generated
    /\ ~raised
    /\ Len(parsed) = 2
    /\ Len(triples) = 2
    /\ ~triples[1].citation_valid
    /\ triples[2].citation_valid

----------------------------------------------------------------------------
(* Properties of truncate_to_token_limit, under SpecP *)

RECURSIVE SumTokens(_, _)
\* the tokens of the first n chunks
SumTokens(cs, n) ==
    IF n = 0 THEN 0 ELSE SumTokens(cs, n - 1) + cs[n].text_tokens

\* the 0-based places of the chunks that do not fit after those before them
NotFitting ==
    {j \in 0..(Len(chunks) - 1) :
        SumTokens(chunks, j) + chunks[j + 1].text_tokens > max_tokens}

----------------------------------------------------------------------------
(* Properties of the dataset round trip, under SpecR *)

\* C26 (as claimed): load_dataset on the file written from a non-empty list
\* of triples returns the triples in the same order with the same question,
\* answer, citation and citation_valid, and the source_file that was written,
\* in all three formats.
C26_DatasetRoundTrip ==
    wpc = "done" =>
        /\ Len(loaded) = Len(written)
        /\ \A i \in 1..Len(written) :
              /\ loaded[i].question = written[i].question
              /\ loaded[i].answer = written[i].answer
              /\ loaded[i].citation = written[i].citation
              /\ loaded[i].citation_valid = written[i].citation_valid
        /\ source_doc = source_file

----------------------------------------------------------------------------
(* Locator against validator, under SpecT *)

\* C27 (as claimed): a citation for which the locator records a span, in
\* whichever tier, is valid by the exact path; so a citation valid only
\* through the elided path is never highlighted, and showing the invalid
\* citations adds no marked region.
C27_LocatableImpliesValid ==
    hpc \in {"assemble", "done"} =>
        /\ highlights # <<>> => (ExactMatch /\ is_valid)
        /\ (is_valid /\ ~ExactMatch) => (highlights = <<>> /\ Marks = <<>>)
        /\ (~hide_invalid /\ ~is_valid) => (highlights = <<>> /\ Marks = <<>>)

----------------------------------------------------------------------------
(* Properties of the loop over parts, under SpecS *)

\* C28: the loop that searches each segment from one past the start of the
\* match before it succeeds if and only if the segments occur in the
\* normalized document at some positions p1 < p2 < ... < pn.
C28_GreedySearchComplete ==
    spc = "done" => (found <=> InOrder(search_parts, search_doc))

\* the search succeeded on three segments that have an in-order placement
\* whose first position is not the leftmost occurrence of the first segment
C28_Witness ==
    /\ spc = "done"
    /\ found
    /\ Len(search_parts) = 3
    /\ \E f \in [1..3 -> 0..Len(search_doc)] :
          /\ \A i \in 1..3 : OccursAt(search_doc, search_parts[i], f[i])
          /\ f[1] < f[2]
          /\ f[2] < f[3]
          /\ f[1] > FirstIndex(search_doc, search_parts[1])

----------------------------------------------------------------------------
(* Properties of validate_citation on mixed marker forms, under SpecM *)

\* the three fragments of the citation occur in the normalized document in
\* their order
FragmentsInOrder ==
    \E sh \in MixedShapes :
        /\ citation = MixedCitation(sh)
        /\ InOrder(MixedFragments(sh), NormDoc)

NoBracket(doc) == ~HasText(doc, <<"[">>) /\ ~HasText(doc, <<"]">>)

\* C29 (as claimed): a citation that joins three fragments with two different
\* marker forms is rejected even when the fragments occur in the document in
\* that order, provided the document holds no literal ellipsis marker text.
C29_MixedFormsRejected ==
    (Returned /\ FragmentsInOrder /\ NoMarker(document_content)) => ~is_valid

\* C29 (amended): such a citation is rejected provided the document holds
\* neither literal ellipsis marker text nor a square bracket.
C29_MixedFormsRejectedWithoutBrackets ==
    (Returned /\ FragmentsInOrder /\ NoMarker(document_content)
        /\ NoBracket(document_content)) => ~is_valid

\* a citation joining its fragments with three dots and then the glyph was
\* rejected against a document of plain text holding the fragments in order
C29_Witness ==
    /\ Returned
    /\ FragmentsInOrder
    /\ NoMarker(document_content)
    /\ NoBracket(document_content)
    /\ OccursAt(citation, <<"a", ".", ".", ".", "a">>, 0)
    /\ citation[Len(citation) - 1] = ELLIPSIS
    /\ ~is_valid

----------------------------------------------------------------------------
(* Properties of the assembly loop on disjoint spans, under SpecH *)

\* the document positions a highlight covers
Covered(h) == {p \in 0..(Len(document_content) - 1) : h.start <= p /\ p < h.end}

\* no two located spans share a document character
PairwiseDisjoint ==
    \A i, j \in 1..Len(highlights) :
        i # j => Covered(highlights[i]) \cap Covered(highlights[j]) = {}

\* the values last_pos has taken: 0, then the end of each mark in turn
CursorValues == <<0>> \o [k \in 1..Len(Marks) |-> Marks[k].end]

\* C30 (as claimed): when the located spans are pairwise disjoint, the slices
\* the assembly loop emits, concatenated in order, equal the document, every
\* marked slice is document[start:end] of its highlight, and last_pos never
\* decreases.
C30_DisjointSpansPartition ==
    (hpc \in {"assemble", "done"} /\ PairwiseDisjoint) =>
        /\ Rendered => ConcatText(result) = document_content
        /\ \A k \in 1..Len(Marks) :
              /\ Marks[k].start = highlights[k].start
              /\ Marks[k].end = highlights[k].end
              /\ Marks[k].text =
                    Slice(document_content, highlights[k].start, highlights[k].end)
        /\ last_pos = CursorValues[Len(CursorValues)]
        /\ \A k \in 1..(Len(CursorValues) - 1) : CursorValues[k] <= CursorValues[k + 1]

====
